---- MODULE Spec2Model ----
(***************************************************************************)
(* A model of rbx_dom_weak's InstanceBuilder and Instance                  *)
(* (src/rbx_dom_weak/src/instance.rs) and of rbx_binary's serializer Error *)
(* (src/rbx_binary/src/serializer/error.rs).                               *)
(*                                                                         *)
(* Strings stand for Ustr and String values, naturals for Ref and Variant  *)
(* values and for the i32 binary referents, sequences for Vec, functions   *)
(* for the hash maps.                                                      *)
(***************************************************************************)
EXTENDS Naturals, Sequences, FiniteSets

VARIABLES
    chained,            \* the InstanceBuilder built with the consuming mutators
    inplace,            \* the same builder built with the &mut self mutators
    ctor,               \* the constructor call that made the builder
    nameSet,            \* whether with_name / set_name was ever called
    binSet,             \* whether with_binary_referent was ever called
    suppliedProps,      \* every (key, value) pair handed to a property mutator
    suppliedChildren,   \* every child builder handed to a child mutator
    last,               \* the last call made on the builder, with its result
    instances,          \* WeakDom: the arena, Ref -> Instance
    root_ref,           \* WeakDom: the referent of the root
    nextRef,            \* the next referent Ref::new() hands out
    instance_byte_sizes,\* the deserializer's ledger, binary referent -> bytes
    sizeQuery,          \* the last Instance::byte_size call, with its result
    raised              \* the last InnerError raised, and the Error made of it

vars == <<chained, inplace, ctor, nameSet, binSet, suppliedProps,
          suppliedChildren, last, instances, root_ref, nextRef,
          instance_byte_sizes, sizeQuery, raised>>

builderVars == <<chained, inplace, ctor, nameSet, binSet, suppliedProps,
                 suppliedChildren, last>>

domVars == <<instances, root_ref, nextRef, instance_byte_sizes, sizeQuery>>

(***************************************************************************)
(* Bounds of the model.                                                    *)
(***************************************************************************)
\* the longest property list a builder grows to
MaxProps == 3
\* the longest children list a builder grows to
MaxChildren == 2
\* the longest list handed to one bulk call
MaxBulk == 2
\* the number of referents Ref::new() hands out to inserted trees
MaxRefs == 4

(***************************************************************************)
(* Values.                                                                 *)
(***************************************************************************)
\* Ref::none(), the null referent
NullRef == 0

\* Option<i32>
None == [tag |-> "None"]

Some(x) == [tag |-> "Some", val |-> x]

\* String::new() and Ustr::default()
EmptyString == ""

Classes == {"Part", "Model"}

\* the inputs of the specification that runs every mutator together
FewNames == {"Door"}

FewPairs == {<<"Anchored", 1>>, <<"Size", 2>>}

FewRefs == {NullRef, 3}

FewIds == {1}

PropKeys == {"Anchored", "Size"}

\* the (key, value) pairs callers supply
Pairs == {<<"Anchored", 1>>, <<"Anchored", 2>>, <<"Size", 1>>}

\* the capacities callers reserve
Capacities == {0, 4}

\* the referents Ref::new() returns to a caller building one builder
FreshRefs == {1}

\* the compact ids of a binary file
BinaryIds == {0, 1, 2}

\* byte counts the ledger records
ByteCounts == {5, 9}

\* all sequences over S of length at most n
SeqsUpTo(S, n) == UNION {[1..k -> S] : k \in 0..n}

(***************************************************************************)
(* InstanceBuilder.                                                        *)
(***************************************************************************)
\* Ustr -> String (class.to_string()) and &str -> Ustr / String (into()):
\* the same characters
to_string(class) == class

\* InstanceBuilder::new(class); referent is what Ref::new() returned
new(class, referent) ==
    LET name == to_string(class)
    IN  [referent |-> referent,
         name |-> name,
         class |-> class,
         properties |-> <<>>,
         children |-> <<>>,
         binary_referent |-> None]

\* with_property_capacity as it would be with the name left empty
with_property_capacity_unnamed(class, capacity, referent) ==
    [referent |-> referent,
     name |-> EmptyString,
     class |-> class,
     properties |-> <<>>,
     children |-> <<>>,
     binary_referent |-> None]

\* InstanceBuilder::with_property_capacity(class, capacity): the capacity
\* reserves space and adds no entry
with_property_capacity(class, capacity, referent) ==
    LET name == to_string(class)
    IN  [referent |-> referent,
         name |-> name,
         class |-> class,
         properties |-> <<>>,
         children |-> <<>>,
         binary_referent |-> None]

\* InstanceBuilder::empty()
empty(referent) ==
    [referent |-> referent,
     name |-> EmptyString,
     class |-> EmptyString,
     properties |-> <<>>,
     children |-> <<>>,
     binary_referent |-> None]

\* InstanceBuilder::referent
builder_referent(self) == self.referent

\* Self { referent: referent.into(), ..self }
with_referent(self, r) ==
    [referent |-> r,
     name |-> self.name,
     class |-> self.class,
     properties |-> self.properties,
     children |-> self.children,
     binary_referent |-> self.binary_referent]

\* self.binary_referent = Some(binary_referent); self
with_binary_referent(self, id) ==
    [self EXCEPT !.binary_referent = Some(id)]

\* Self { name: name.into(), ..self }
with_name(self, name) ==
    [referent |-> self.referent,
     name |-> name,
     class |-> self.class,
     properties |-> self.properties,
     children |-> self.children,
     binary_referent |-> self.binary_referent]

\* self.name = name.into()
set_name(self, name) ==
    [self EXCEPT !.name = name]

\* with_class as it would be if it kept a defaulted name equal to the class
with_class_renaming(self, class) ==
    [referent |-> self.referent,
     name |-> IF self.name = to_string(self.class) THEN to_string(class)
              ELSE self.name,
     class |-> class,
     properties |-> self.properties,
     children |-> self.children,
     binary_referent |-> self.binary_referent]

\* Self { class: class.into(), ..self }
with_class(self, class) ==
    [referent |-> self.referent,
     name |-> self.name,
     class |-> class,
     properties |-> self.properties,
     children |-> self.children,
     binary_referent |-> self.binary_referent]

\* self.class = class.into()
set_class(self, class) ==
    [self EXCEPT !.class = class]

\* Vec::push
push(vec, item) == Append(vec, item)

\* Vec::extend: pushes the iterator's items one by one, in iteration order
RECURSIVE extend(_, _)
extend(vec, iter) ==
    IF iter = <<>> THEN vec
    ELSE extend(push(vec, Head(iter)), Tail(iter))

\* self.properties.push((key.into(), value.into())); self
with_property(self, key, value) ==
    [self EXCEPT !.properties = push(self.properties, <<key, value>>)]

\* add_property as it would be if it overwrote an entry that has the key
add_property_replacing(self, key, value) ==
    IF \E i \in 1..Len(self.properties) : self.properties[i][1] = key
    THEN [self EXCEPT !.properties =
             [i \in 1..Len(@) |-> IF @[i][1] = key THEN <<key, value>>
                                  ELSE @[i]]]
    ELSE [self EXCEPT !.properties = push(@, <<key, value>>)]

\* self.properties.push((key.into(), value.into()))
add_property(self, key, value) ==
    [self EXCEPT !.properties = push(@, <<key, value>>)]

\* self.properties.iter().any(|(k, _)| *k == key): scans from the front and
\* stops at the first entry with the key
RECURSIVE any_key(_, _)
any_key(props, key) ==
    IF props = <<>> THEN FALSE
    ELSE IF Head(props)[1] = key THEN TRUE
    ELSE any_key(Tail(props), key)

\* has_property as it would be if it looked at the first entry only
has_property_first(self, key) ==
    self.properties # <<>> /\ Head(self.properties)[1] = key

has_property(self, key) == any_key(self.properties, key)

\* props.into_iter().map(|(k, v)| (k.into(), v.into()))
map_into(props) == [i \in 1..Len(props) |-> <<props[i][1], props[i][2]>>]

\* with_properties as it would be if it skipped keys already present
RECURSIVE extend_new_keys(_, _)
extend_new_keys(vec, iter) ==
    IF iter = <<>> THEN vec
    ELSE IF \E i \in 1..Len(vec) : vec[i][1] = Head(iter)[1]
         THEN extend_new_keys(vec, Tail(iter))
         ELSE extend_new_keys(push(vec, Head(iter)), Tail(iter))

with_properties_new_keys(self, props) ==
    [self EXCEPT !.properties = extend_new_keys(self.properties, map_into(props))]

\* self.properties.extend(props); self
with_properties(self, props) ==
    [self EXCEPT !.properties = extend(self.properties, map_into(props))]

\* self.properties.extend(props)
add_properties(self, props) ==
    [self EXCEPT !.properties = extend(@, map_into(props))]

\* self.children.push(child); self
with_child(self, child) ==
    [self EXCEPT !.children = push(self.children, child)]

\* self.children.push(child)
add_child(self, child) ==
    [self EXCEPT !.children = push(@, child)]

\* with_children as it would be if it took the children back to front
with_children_reversed(self, children) ==
    [self EXCEPT !.children =
        extend(self.children,
               [i \in 1..Len(children) |-> children[Len(children) + 1 - i]])]

\* self.children.extend(children); self
with_children(self, children) ==
    [self EXCEPT !.children = extend(self.children, children)]

\* self.children.extend(children)
add_children(self, children) ==
    [self EXCEPT !.children = extend(@, children)]

\* the child builders callers supply: a plain one, one with a property and a
\* binary referent, one with a child of its own
ChildPool ==
    { new("Part", 4),
      with_binary_referent(with_property(new("Model", 5), "Size", 2), 1),
      with_child(with_name(new("Model", 6), "Door"), new("Part", 7)) }

FewChildren ==
    { new("Part", 4),
      with_child(with_name(new("Model", 6), "Door"), new("Part", 7)) }

(***************************************************************************)
(* Instance.                                                               *)
(***************************************************************************)
\* Instance::referent
Instance_referent(self) == self.referent

\* Instance::children
Instance_children(self) == self.children

\* Instance::parent
Instance_parent(self) == self.parent

\* HashMap::get: Some(value) for a key of the map, None for any other
get(map, key) == IF key \in DOMAIN map THEN Some(map[key]) ELSE None

\* Option::unwrap_or
unwrap_or(opt, default) == IF opt.tag = "Some" THEN opt.val ELSE default

\* byte_size as it would be if an absent binary referent read as id 0
byte_size_default_id(self, byte_sizes) ==
    LET binary_ref == unwrap_or(self.binary_referent, 0)
    IN  unwrap_or(get(byte_sizes, binary_ref), 0)

\* byte_size as it would be if it took the compact ids as one-based
byte_size_one_based(self, byte_sizes) ==
    IF self.binary_referent.tag = "Some"
    THEN LET binary_ref == self.binary_referent.val
         IN  unwrap_or(get(byte_sizes, binary_ref + 1), 0)
    ELSE 0

\* Instance::byte_size
byte_size(self, byte_sizes) ==
    IF self.binary_referent.tag = "Some"
    THEN LET binary_ref == self.binary_referent.val
         IN  unwrap_or(get(byte_sizes, binary_ref), 0)
    ELSE 0

\* every byte_sizes table over the compact ids
Tables == UNION {[D -> ByteCounts] : D \in SUBSET BinaryIds}

(***************************************************************************)
(* WeakDom, as the specification describes it: insert resolves a builder   *)
(* tree into Instances, one per builder, children in the builder's order,  *)
(* the binary referent carried through, the last occurrence of a property  *)
(* key winning; destroy removes a subtree and detaches it from its parent. *)
(***************************************************************************)
\* the builder's property list as the Instance's property map
property_map(props) ==
    [k \in {props[i][1] : i \in 1..Len(props)} |->
        LET at == CHOOSE i \in 1..Len(props) :
                      /\ props[i][1] = k
                      /\ \A j \in (i + 1)..Len(props) : props[j][1] # k
        IN  props[at][2]]

\* the Instance a builder resolves into under the given parent
instance_from(builder, parent) ==
    [referent |-> builder.referent,
     children |-> [i \in 1..Len(builder.children) |->
                      builder.children[i].referent],
     parent |-> parent,
     name |-> builder.name,
     class |-> builder.class,
     properties |-> property_map(builder.properties),
     binary_referent |-> builder.binary_referent]

\* the Instances of a whole builder tree
RECURSIVE tree_instances(_, _)
tree_instances(builder, parent) ==
    {instance_from(builder, parent)} \cup
    UNION {tree_instances(builder.children[i], builder.referent) :
              i \in 1..Len(builder.children)}

\* the referents of the subtree rooted at r
RECURSIVE subtree(_, _)
subtree(arena, r) ==
    {r} \cup UNION {subtree(arena, arena[r].children[i]) :
                       i \in 1..Len(arena[r].children)}

\* WeakDom::insert
insert(arena, parent, builder) ==
    LET made == tree_instances(builder, parent)
        refs == {i.referent : i \in made}
    IN  [r \in DOMAIN arena \cup refs |->
            IF r \in refs THEN CHOOSE i \in made : i.referent = r
            ELSE IF r = parent
                 THEN [arena[r] EXCEPT
                          !.children = Append(@, builder.referent)]
                 ELSE arena[r]]

\* a list without the given referent
without(list, r) == SelectSeq(list, LAMBDA x : x # r)

\* destroy as it would be if it left the parent's child list alone
destroy_attached(arena, r) ==
    LET gone == subtree(arena, r)
    IN  [k \in DOMAIN arena \ gone |-> arena[k]]

\* WeakDom::destroy
destroy(arena, r) ==
    LET gone == subtree(arena, r)
        parent == arena[r].parent
    IN  [k \in DOMAIN arena \ gone |->
            IF k = parent
            THEN [arena[k] EXCEPT !.children = without(@, r)]
            ELSE arena[k]]

(***************************************************************************)
(* The builder's life: one constructor call, then any mutators.  Each      *)
(* step makes the same call in both styles: the consuming mutator on       *)
(* chained, the in-place one on inplace.  with_referent and                *)
(* with_binary_referent have no in-place form.                             *)
(***************************************************************************)
Call(op) == [op |-> op, key |-> EmptyString, result |-> FALSE]

Constructed(b, kind, class) ==
    /\ chained = b
    /\ inplace = b
    /\ ctor = [kind |-> kind, class |-> class]
    /\ nameSet = FALSE
    /\ binSet = FALSE
    /\ suppliedProps = <<>>
    /\ suppliedChildren = <<>>
    /\ last = Call(kind)

BuilderConstructed ==
    \E r \in FreshRefs :
        \/ \E c \in Classes : Constructed(new(c, r), "new", c)
        \/ \E c \in Classes, n \in Capacities :
              Constructed(with_property_capacity(c, n, r),
                          "with_property_capacity", c)
        \/ Constructed(empty(r), "empty", EmptyString)

DomIdle ==
    /\ instances = <<>>
    /\ root_ref = NullRef
    /\ nextRef = NullRef + 1
    /\ instance_byte_sizes = <<>>
    /\ sizeQuery = None

ErrorIdle == raised = None

BuilderIdle == \E r \in FreshRefs : Constructed(empty(r), "empty", EmptyString)

\* a builder fresh from one of its constructors; no dom, no error yet
InitBuilder == BuilderConstructed /\ DomIdle /\ ErrorIdle

Name(n) ==
    /\ chained' = with_name(chained, n)
    /\ inplace' = set_name(inplace, n)
    /\ nameSet' = TRUE
    /\ last' = Call("name")
    /\ UNCHANGED <<ctor, binSet, suppliedProps, suppliedChildren>>
    /\ UNCHANGED <<domVars, raised>>

Class(c) ==
    /\ chained' = with_class(chained, c)
    /\ inplace' = set_class(inplace, c)
    /\ last' = Call("class")
    /\ UNCHANGED <<ctor, nameSet, binSet, suppliedProps, suppliedChildren>>
    /\ UNCHANGED <<domVars, raised>>

Referent(r) ==
    /\ chained' = with_referent(chained, r)
    /\ inplace' = with_referent(inplace, r)
    /\ last' = Call("referent")
    /\ UNCHANGED <<ctor, nameSet, binSet, suppliedProps, suppliedChildren>>
    /\ UNCHANGED <<domVars, raised>>

BinaryReferent(id) ==
    /\ chained' = with_binary_referent(chained, id)
    /\ inplace' = with_binary_referent(inplace, id)
    /\ binSet' = TRUE
    /\ last' = Call("binary_referent")
    /\ UNCHANGED <<ctor, nameSet, suppliedProps, suppliedChildren>>
    /\ UNCHANGED <<domVars, raised>>

Property(k, v) ==
    /\ Len(suppliedProps) < MaxProps
    /\ chained' = with_property(chained, k, v)
    /\ inplace' = add_property(inplace, k, v)
    /\ suppliedProps' = suppliedProps \o <<(<<k, v>>)>>
    /\ last' = Call("property")
    /\ UNCHANGED <<ctor, nameSet, binSet, suppliedChildren>>
    /\ UNCHANGED <<domVars, raised>>

Properties(ps) ==
    /\ Len(suppliedProps) + Len(ps) <= MaxProps
    /\ chained' = with_properties(chained, ps)
    /\ inplace' = add_properties(inplace, ps)
    /\ suppliedProps' = suppliedProps \o ps
    /\ last' = Call("properties")
    /\ UNCHANGED <<ctor, nameSet, binSet, suppliedChildren>>
    /\ UNCHANGED <<domVars, raised>>

Child(c) ==
    /\ Len(suppliedChildren) < MaxChildren
    /\ chained' = with_child(chained, c)
    /\ inplace' = add_child(inplace, c)
    /\ suppliedChildren' = suppliedChildren \o <<c>>
    /\ last' = Call("child")
    /\ UNCHANGED <<ctor, nameSet, binSet, suppliedProps>>
    /\ UNCHANGED <<domVars, raised>>

Children(cs) ==
    /\ Len(suppliedChildren) + Len(cs) <= MaxChildren
    /\ chained' = with_children(chained, cs)
    /\ inplace' = add_children(inplace, cs)
    /\ suppliedChildren' = suppliedChildren \o cs
    /\ last' = Call("children")
    /\ UNCHANGED <<ctor, nameSet, binSet, suppliedProps>>
    /\ UNCHANGED <<domVars, raised>>

HasProperty(k) ==
    /\ last' = [op |-> "has_property", key |-> k,
                result |-> has_property(chained, k)]
    /\ UNCHANGED <<chained, inplace, ctor, nameSet, binSet, suppliedProps,
                   suppliedChildren>>
    /\ UNCHANGED <<domVars, raised>>

\* every mutator, on few inputs
NextBuilder ==
    \/ \E n \in FewNames : Name(n)
    \/ \E c \in Classes : Class(c)
    \/ \E r \in FewRefs : Referent(r)
    \/ \E id \in FewIds : BinaryReferent(id)
    \/ \E p \in FewPairs : Property(p[1], p[2])
    \/ \E ps \in SeqsUpTo(FewPairs, MaxBulk) : Properties(ps)
    \/ \E c \in FewChildren : Child(c)
    \/ \E cs \in SeqsUpTo(FewChildren, MaxBulk) : Children(cs)

SpecBuilder ==
    InitBuilder /\ [][NextBuilder]_vars

\* the property mutators and has_property
NextProps ==
    \/ \E p \in Pairs : Property(p[1], p[2])
    \/ \E ps \in SeqsUpTo(Pairs, MaxBulk) : Properties(ps)
    \/ \E k \in PropKeys : HasProperty(k)

SpecProps ==
    InitBuilder /\ [][NextProps]_vars

\* the child mutators
NextChildren ==
    \/ \E c \in ChildPool : Child(c)
    \/ \E cs \in SeqsUpTo(ChildPool, MaxBulk) : Children(cs)

SpecChildren ==
    InitBuilder /\ [][NextChildren]_vars

(***************************************************************************)
(* The dom's life: an empty arena, then inserts of freshly built trees,    *)
(* destroys, and byte_size calls against the ledger the dom carries.       *)
(***************************************************************************)
TreeShapes == {"leaf", "binary", "family"}

\* the compact ids the inserted trees carry
TreeIds == {1, 2}

\* the ledgers a deserialized dom comes with: empty, one id, two ids with
\* different byte counts
Ledgers == {<<>>, [id \in {1} |-> 5], [id \in {1, 2} |-> IF id = 1 THEN 5 ELSE 9]}

\* the builder tree of a shape; Ref::new() returns first, first + 1, ...
build_tree(shape, first, id) ==
    CASE shape = "leaf" -> new("Part", first)
      [] shape = "binary" ->
            with_property(
                with_property(with_binary_referent(new("Part", first), id),
                              "Size", 1),
                "Size", 2)
      [] shape = "family" ->
            with_child(
                with_child(with_name(new("Model", first), "Door"),
                           with_binary_referent(new("Part", first + 1), id)),
                new("Part", first + 2))

RECURSIVE tree_size(_)
tree_size(builder) ==
    IF builder.children = <<>> THEN 1
    ELSE 1 + tree_size([builder EXCEPT !.children = Tail(@)])
           + tree_size(Head(builder.children)) - 1

InitDom ==
    /\ BuilderIdle
    /\ ErrorIdle
    /\ instances = <<>>
    /\ root_ref = NullRef
    /\ nextRef = NullRef + 1
    /\ instance_byte_sizes \in Ledgers
    /\ sizeQuery = None

\* an insert under a parent that is not in the arena fails and leaves the
\* dom as it was; the first insert, into the empty arena, makes the root
Insert(parent, shape, id) ==
    LET tree == build_tree(shape, nextRef, id)
    IN  /\ \/ parent \in DOMAIN instances
           \/ DOMAIN instances = {} /\ parent = NullRef
        /\ nextRef + tree_size(tree) - 1 <= MaxRefs
        /\ instances' = insert(instances, parent, tree)
        /\ root_ref' = IF DOMAIN instances = {} THEN tree.referent
                       ELSE root_ref
        /\ nextRef' = nextRef + tree_size(tree)
        /\ UNCHANGED <<instance_byte_sizes, sizeQuery>>
        /\ UNCHANGED <<builderVars, raised>>

Destroy(r) ==
    /\ r \in DOMAIN instances
    /\ instances' = destroy(instances, r)
    /\ root_ref' = IF r = root_ref THEN NullRef ELSE root_ref
    /\ UNCHANGED <<nextRef, instance_byte_sizes, sizeQuery>>
    /\ UNCHANGED <<builderVars, raised>>

ByteSize(r) ==
    /\ r \in DOMAIN instances
    /\ sizeQuery' = [binary_referent |-> instances[r].binary_referent,
                     result |-> byte_size(instances[r], instance_byte_sizes)]
    /\ UNCHANGED <<instances, root_ref, nextRef, instance_byte_sizes>>
    /\ UNCHANGED <<builderVars, raised>>

NextDom ==
    \/ \E parent \in 0..MaxRefs, shape \in TreeShapes, id \in TreeIds :
          Insert(parent, shape, id)
    \/ \E r \in 1..MaxRefs : Destroy(r)
    \/ \E r \in 1..MaxRefs : ByteSize(r)

SpecDom == InitDom /\ [][NextDom]_vars

(***************************************************************************)
(* The serializer's Error.                                                 *)
(***************************************************************************)
\* InnerError::Io
Io(source) == [variant |-> "Io", source |-> source]

\* InnerError::PropTypeMismatch
PropTypeMismatch(type_name, prop_name, valid, actual, full_name) ==
    [variant |-> "PropTypeMismatch",
     type_name |-> type_name,
     prop_name |-> prop_name,
     valid_type_names |-> valid,
     actual_type_name |-> actual,
     instance_full_name |-> full_name]

\* InnerError::UnsupportedPropType
UnsupportedPropType(type_name, prop_name, prop_type) ==
    [variant |-> "UnsupportedPropType",
     type_name |-> type_name,
     prop_name |-> prop_name,
     prop_type |-> prop_type]

\* InnerError::InvalidPropValue
InvalidPropValue(instance_full_name, type_name, prop_name, prop_type) ==
    [variant |-> "InvalidPropValue",
     instance_full_name |-> instance_full_name,
     type_name |-> type_name,
     prop_name |-> prop_name,
     prop_type |-> prop_type]

\* InnerError::InvalidInstanceId
InvalidInstanceId(r) == [variant |-> "InvalidInstanceId", referent |-> r]

\* From<InnerError> as it would be if it went through io::Error::other
Error_from_as_io(inner) == [source |-> Io(inner.variant)]

\* From<InnerError> for Error: Self { source: Box::new(inner) }
Error_from(inner) == [source |-> inner]

\* From<io::Error> for InnerError, derived by #[from]
InnerError_from(io_error) == Io(io_error)

IoErrors == {"UnexpectedEof", "WriteZero"}

TypeNames == {"Part", "Model"}

PropNames == {"Size", "Anchored"}

VariantTypes == {"Vector3", "Int32", "Bool"}

FullNames == {"DataModel.Workspace", "DataModel.Workspace.Door"}

ErrorRefs == {NullRef, 1, 2, 3}

InitError ==
    /\ BuilderIdle
    /\ DomIdle
    /\ raised = None

\* a failure site: the InnerError it makes, and the Error that `.into()`
\* or `?` makes of it
Raised(inner) == [tag |-> "Some", inner |-> inner, error |-> Error_from(inner)]

RaiseIo(e) ==
    /\ raised' = Raised(InnerError_from(e))
    /\ UNCHANGED <<builderVars, domVars>>

RaisePropTypeMismatch(t, p, valid, actual, full) ==
    /\ raised' = Raised(PropTypeMismatch(t, p, valid, actual, full))
    /\ UNCHANGED <<builderVars, domVars>>

RaiseUnsupportedPropType(t, p, ty) ==
    /\ raised' = Raised(UnsupportedPropType(t, p, ty))
    /\ UNCHANGED <<builderVars, domVars>>

RaiseInvalidPropValue(full, t, p, ty) ==
    /\ raised' = Raised(InvalidPropValue(full, t, p, ty))
    /\ UNCHANGED <<builderVars, domVars>>

RaiseInvalidInstanceId(r) ==
    /\ raised' = Raised(InvalidInstanceId(r))
    /\ UNCHANGED <<builderVars, domVars>>

NextError ==
    \/ \E e \in IoErrors : RaiseIo(e)
    \/ \E t \in TypeNames, p \in PropNames, valid \in VariantTypes,
          actual \in VariantTypes, full \in FullNames :
          RaisePropTypeMismatch(t, p, valid, actual, full)
    \/ \E t \in TypeNames, p \in PropNames, ty \in VariantTypes :
          RaiseUnsupportedPropType(t, p, ty)
    \/ \E full \in FullNames, t \in TypeNames, p \in PropNames,
          ty \in VariantTypes :
          RaiseInvalidPropValue(full, t, p, ty)
    \/ \E r \in ErrorRefs : RaiseInvalidInstanceId(r)

SpecError == InitError /\ [][NextError]_vars

(***************************************************************************)
(* The claims.                                                             *)
(***************************************************************************)
Fields == {"referent", "name", "class", "properties", "children",
           "binary_referent"}

\* the keys among the pairs supplied so far
SuppliedKeys == {suppliedProps[i][1] : i \in 1..Len(suppliedProps)}

\* how many of the pairs supplied so far have the key
TimesSupplied(k) ==
    Cardinality({i \in 1..Len(suppliedProps) : suppliedProps[i][1] = k})

IsPrefix(short, long) ==
    /\ Len(short) <= Len(long)
    /\ \A i \in 1..Len(short) : short[i] = long[i]

\* C1: the consuming mutators and the in-place mutators, given the same
\* arguments in the same order, leave the same builder: the same referent,
\* name, class, property list, children list and binary referent.
C1_StylesAgree ==
    /\ chained.referent = inplace.referent
    /\ chained.name = inplace.name
    /\ chained.class = inplace.class
    /\ chained.properties = inplace.properties
    /\ chained.children = inplace.children
    /\ chained.binary_referent = inplace.binary_referent

\* every mutator has acted, a key was added twice
C1_Witness ==
    /\ nameSet
    /\ binSet
    /\ chained.referent \notin FreshRefs
    /\ chained.name # to_string(ctor.class)
    /\ chained.class # ctor.class
    /\ Len(chained.properties) = MaxProps
    /\ \E k \in PropKeys : TimesSupplied(k) >= 2
    /\ Len(chained.children) = MaxChildren
    /\ last.op = "children"
    /\ chained = inplace

\* C3: a builder on which with_binary_referent was never called has no
\* binary referent, and the Instance it resolves into reports byte_size 0
\* against every byte_sizes table, the non-empty ones included.
C3_InMemoryIsZero ==
    ~binSet =>
        /\ chained.binary_referent = None
        /\ inplace.binary_referent = None
        /\ \A t \in Tables :
              /\ byte_size(instance_from(chained, NullRef), t) = 0
              /\ byte_size(instance_from(inplace, NullRef), t) = 0

\* mutators other than with_binary_referent have acted, and a table that
\* records a size for every id still gives 0
C3_Witness ==
    /\ ~binSet
    /\ nameSet
    /\ chained.referent \notin FreshRefs
    /\ suppliedProps # <<>>
    /\ suppliedChildren # <<>>
    /\ \E t \in Tables :
          /\ DOMAIN t = BinaryIds
          /\ byte_size(instance_from(chained, NullRef), t) = 0

\* C6: a builder made by new(class) or with_property_capacity(class, n)
\* has the class name as its name, and keeps that name through every
\* mutator other than with_name and set_name.
C6_NameDefaultsToClass ==
    (ctor.kind \in {"new", "with_property_capacity"} /\ ~nameSet) =>
        /\ chained.name = to_string(ctor.class)
        /\ inplace.name = to_string(ctor.class)

\* after with_property_capacity and a change of class, among other calls,
\* the name is still the constructor's class
C6_Witness ==
    /\ ctor.kind = "with_property_capacity"
    /\ ~nameSet
    /\ chained.class # ctor.class
    /\ binSet
    /\ suppliedProps # <<>>
    /\ suppliedChildren # <<>>
    /\ chained.name = to_string(ctor.class)

OnlyChanges(field) ==
    \A f \in Fields \ {field} :
        /\ chained'[f] = chained[f]
        /\ inplace'[f] = inplace[f]

OnlyAppends(field) ==
    /\ OnlyChanges(field)
    /\ IsPrefix(chained[field], chained'[field])
    /\ IsPrefix(inplace[field], inplace'[field])

\* C10: each mutator changes its own field only: the name mutators the
\* name, the class mutators the class (a name defaulted from the class
\* stays), with_referent the referent, with_binary_referent the binary
\* referent; the property mutators only append to the property list and the
\* child mutators only append to the children list.
C10_Frame ==
    [][/\ last'.op = "name" => OnlyChanges("name")
       /\ last'.op = "class" => OnlyChanges("class")
       /\ last'.op = "referent" => OnlyChanges("referent")
       /\ last'.op = "binary_referent" => OnlyChanges("binary_referent")
       /\ last'.op \in {"property", "properties"} => OnlyAppends("properties")
       /\ last'.op \in {"child", "children"} => OnlyAppends("children")]_vars

\* the class of a builder with a defaulted name was just changed, on a
\* builder that has properties and children
C10_Witness ==
    /\ last.op = "class"
    /\ ~nameSet
    /\ ctor.kind = "new"
    /\ chained.class # ctor.class
    /\ chained.name = to_string(ctor.class)
    /\ suppliedProps # <<>>
    /\ suppliedChildren # <<>>

\* C4: has_property(key) is true exactly when some entry of the property
\* list has the key, however many times and through whichever mutator the
\* key was added, false for a key never added, and it leaves the builder
\* as it was.
C4_HasProperty ==
    /\ [](/\ \A k \in PropKeys :
                /\ has_property(chained, k) <=> k \in SuppliedKeys
                /\ has_property(inplace, k) <=> k \in SuppliedKeys
          /\ last.op = "has_property" =>
                last.result = (TimesSupplied(last.key) >= 1))
    /\ [][last'.op = "has_property" =>
             chained' = chained /\ inplace' = inplace]_vars

\* has_property answered TRUE for a key that was added twice, after another
\* key was added first
C4_Witness ==
    /\ last.op = "has_property"
    /\ last.result
    /\ TimesSupplied(last.key) = 2
    /\ suppliedProps[1][1] # last.key
    /\ Len(suppliedProps) = MaxProps

\* C5: the property list is the concatenation, in call order and in
\* iteration order within a bulk call, of every pair supplied: as long as
\* the pairs supplied are many, and an entry added earlier with the same
\* key is still there.
C5_PropertiesInOrder ==
    /\ chained.properties = suppliedProps
    /\ inplace.properties = suppliedProps
    /\ Len(chained.properties) = Len(suppliedProps)

\* a bulk call just added a key that was already present, with another value
C5_Witness ==
    /\ last.op = "properties"
    /\ Len(chained.properties) = MaxProps
    /\ \E i, j \in 1..Len(chained.properties) :
          /\ i < j
          /\ chained.properties[i][1] = chained.properties[j][1]
          /\ chained.properties[i][2] # chained.properties[j][2]
    /\ \E i \in 1..Len(chained.properties) :
          chained.properties[i][1] # chained.properties[1][1]

\* C7: the children list is the concatenation, in call order and in
\* iteration order within a bulk call, of every child builder supplied;
\* none is reordered, removed or deduplicated.
C7_ChildrenInOrder ==
    /\ chained.children = suppliedChildren
    /\ inplace.children = suppliedChildren

\* a bulk call added two different children
C7_Witness ==
    /\ last.op = "children"
    /\ Len(chained.children) = MaxChildren
    /\ chained.children[MaxChildren - 1] # chained.children[MaxChildren]
    /\ chained.children[MaxChildren].children # <<>>

Occurrences(list, r) == Cardinality({i \in 1..Len(list) : list[i] = r})

\* C2: after any inserts and destroys, every non-root instance is exactly
\* once in the child list of its parent, which is the instance its stored
\* parent names; every referent children() returns is non-null and in the
\* arena; parent() is null or in the arena.
C2_ParentChildLinks ==
    \A r \in DOMAIN instances :
        LET i == instances[r]
        IN  /\ Instance_referent(i) = r
            /\ r # root_ref =>
                  /\ Instance_parent(i) \in DOMAIN instances
                  /\ Occurrences(
                        Instance_children(instances[Instance_parent(i)]),
                        r) = 1
            /\ \A n \in 1..Len(Instance_children(i)) :
                  LET c == Instance_children(i)[n]
                  IN  /\ c # NullRef
                      /\ c \in DOMAIN instances
                      /\ Instance_parent(instances[c]) = r
            /\ \/ Instance_parent(i) = NullRef
               \/ Instance_parent(i) \in DOMAIN instances

\* a subtree was destroyed and its parent, not the root, still has a child
C2_Witness ==
    /\ Cardinality(DOMAIN instances) >= 3
    /\ nextRef - 1 > Cardinality(DOMAIN instances)
    /\ \E r \in DOMAIN instances :
          /\ r # root_ref
          /\ Len(instances[r].children) = 1

LedgerSize(id) ==
    IF id \in DOMAIN instance_byte_sizes THEN instance_byte_sizes[id] ELSE 0

\* C9: for an instance with binary referent Some(id), byte_size returns
\* the table's entry for id when there is one and 0 when there is none,
\* never another id's entry, and leaves the instance and the table as
\* they were.
C9_ByteSize ==
    /\ [](/\ \A r \in DOMAIN instances, t \in Tables :
                instances[r].binary_referent.tag = "Some" =>
                    LET id == instances[r].binary_referent.val
                    IN  byte_size(instances[r], t) =
                            (IF id \in DOMAIN t THEN t[id] ELSE 0)
          /\ (sizeQuery # None /\ sizeQuery.binary_referent.tag = "Some") =>
                sizeQuery.result = LedgerSize(sizeQuery.binary_referent.val))
    /\ [][sizeQuery' # sizeQuery =>
             /\ instances' = instances
             /\ instance_byte_sizes' = instance_byte_sizes]_vars

\* the ledger records different sizes for ids 1 and 2; byte_size returned
\* the size of id 1 for an instance that carries id 1, next to an instance
\* that carries id 2
C9_Witness ==
    /\ sizeQuery # None
    /\ sizeQuery.binary_referent = Some(1)
    /\ DOMAIN instance_byte_sizes = {1, 2}
    /\ instance_byte_sizes[1] # instance_byte_sizes[2]
    /\ sizeQuery.result = instance_byte_sizes[1]
    /\ \E r \in DOMAIN instances : instances[r].binary_referent = Some(2)

ErrorVariants == {"Io", "PropTypeMismatch", "UnsupportedPropType",
                  "InvalidPropValue", "InvalidInstanceId"}

\* C8: an Error wraps one InnerError, of one of the five variants, and
\* the conversion from InnerError keeps the variant and every field.
C8_ErrorWraps ==
    raised # None =>
        LET inner == raised.inner
            wrapped == raised.error.source
        IN  /\ DOMAIN raised.error = {"source"}
            /\ wrapped.variant \in ErrorVariants
            /\ wrapped.variant = inner.variant
            /\ DOMAIN wrapped = DOMAIN inner
            /\ \A f \in DOMAIN inner : wrapped[f] = inner[f]

\* an InvalidInstanceId was converted, its referent still in it
C8_Witness ==
    /\ raised # None
    /\ raised.inner.variant = "InvalidInstanceId"
    /\ raised.error.source.variant = "InvalidInstanceId"
    /\ raised.error.source.referent = 3

====
